---- MODULE Spec2Model ----
(***************************************************************************)
(* Model of PDFViewer (src/main.py): the document handle, the page         *)
(* gallery, the page spinbox, the zoom factor and the navigation           *)
(* handlers.  Every handler is one atomic action (the program is single-   *)
(* threaded and event driven); the handlers are written as operators on a  *)
(* state record so that a handler that calls another one is composed from  *)
(* it exactly as in the source.                                            *)
(***************************************************************************)
EXTENDS Integers, Sequences, FiniteSets, TLC

VARIABLES pdf_document, current_page, zoom_level, invert_colors, page_images,
          scroll_value, page_spinbox, handle_path, handle_closed, closed_use,
          window_closed, zoom_count, zoom_trip, lastCmd, msg, rebuilt

vars == <<pdf_document, current_page, zoom_level, invert_colors, page_images,
          scroll_value, page_spinbox, handle_path, handle_closed, closed_use,
          window_closed, zoom_count, zoom_trip, lastCmd, msg, rebuilt>>

(***************************************************************************)
(* Bounds of the exploration.                                              *)
(***************************************************************************)
\* number of document handles fitz.open may create in one run
MaxHandles == 2
\* number of zoom commands (buttons, keys, Ctrl+wheel) in one run of Spec
MaxZooms == 2
\* largest value the user types into the page spinbox
MaxSpinInput == 4

(***************************************************************************)
(* IEEE-754 doubles in [0, 8): a double of this range is an integer        *)
(* multiple N of 2^-55; it is kept as <<hi, lo>> with N = hi * 2^30 + lo.  *)
(***************************************************************************)
B30 == 2^30

F_0_2 == <<6710886, 429496730>>
F_5_0 == <<167772160, 0>>
F_1_0 == <<33554432, 0>>

FLess(a, b) == a[1] < b[1] \/ (a[1] = b[1] /\ a[2] < b[2])

FMin(a, b) == IF FLess(b, a) THEN b ELSE a

FMax(a, b) == IF FLess(a, b) THEN b ELSE a

\* number of low bits of N that a 53-bit mantissa cannot hold
FShift(hi) ==
    IF hi >= 134217728 THEN 5
    ELSE IF hi >= 67108864 THEN 4
    ELSE IF hi >= 33554432 THEN 3
    ELSE IF hi >= 16777216 THEN 2
    ELSE IF hi >= 8388608 THEN 1
    ELSE 0

Pow2(s) == CASE s = 0 -> 1 [] s = 1 -> 2 [] s = 2 -> 4 [] s = 3 -> 8
             [] s = 4 -> 16 [] s = 5 -> 32

\* round-to-nearest, ties-to-even, of the exact value <<hi, lo>>
FRound(n) ==
    LET u    == Pow2(FShift(n[1]))
        r    == n[2] % u
        down == n[2] - r
        odd  == (down \div u) % 2 = 1
        up   == (2 * r > u) \/ (2 * r = u /\ odd)
        lo   == IF up THEN down + u ELSE down
    IN  <<n[1] + (lo \div B30), lo % B30>>

FAdd(a, b) ==
    LET lo == a[2] + b[2]
    IN  FRound(<<a[1] + b[1] + (lo \div B30), lo % B30>>)

\* a - b for a >= b
FSub(a, b) ==
    LET lo == a[2] - b[2]
    IN  IF lo < 0 THEN FRound(<<a[1] - b[1] - 1, lo + B30>>)
                  ELSE FRound(<<a[1] - b[1], lo>>)

\* the multiple of 0.2 nearest to z (1 for 0.2 .. 25 for 5.0)
ZoomStep(z) == (2 * z[1] + F_0_2[1]) \div (2 * F_0_2[1])

(***************************************************************************)
(* The files the user can pick in the file dialog.  "" is a cancelled      *)
(* dialog, bad.pdf is a path fitz.open rejects, empty.pdf has no pages,    *)
(* page 1 of corrupt.pdf cannot be rasterized.                             *)
(***************************************************************************)
Paths == {"", "bad.pdf", "empty.pdf", "a.pdf", "corrupt.pdf"}

Openable(path) == path \in {"empty.pdf", "a.pdf", "corrupt.pdf"}

\* height in points of every page of the file
PageHeights(path) ==
    CASE path = "a.pdf"       -> <<10, 20, 10>>
      [] path = "corrupt.pdf" -> <<20, 10, 20>>
      [] OTHER                -> <<>>

\* one sample (channel value) of every page as rasterized without inversion
PageSample(path, i) ==
    CASE path = "a.pdf"       -> 255 - 40 * i
      [] path = "corrupt.pdf" -> 30 + i
      [] OTHER                -> 0

\* page indexes whose rasterization raises
BadPages(path) == IF path = "corrupt.pdf" THEN {1} ELSE {}

NoDoc == 0


\* pages_layout.setSpacing(10)
Spacing == 10

Min2(a, b) == IF a < b THEN a ELSE b

Max2(a, b) == IF a > b THEN a ELSE b

(***************************************************************************)
(* zoom_trip observes the last two commands: after a call of zoom_in it is *)
(* "in1" with the zoom factor the call started from, after a zoom_out that *)
(* directly follows it is "in2" with the same start ("out1", "out2" for    *)
(* zoom_out followed by zoom_in); after any other command it is idle.      *)
(***************************************************************************)
Idle == [kind |-> "idle", start |-> <<0, 0>>]

TripIn(s) ==
    IF s.ptrip.kind = "out1" THEN [s.ptrip EXCEPT !.kind = "out2"]
    ELSE [kind |-> "in1", start |-> s.zoom]

TripOut(s) ==
    IF s.ptrip.kind = "in1" THEN [s.ptrip EXCEPT !.kind = "in2"]
    ELSE [kind |-> "out1", start |-> s.zoom]

(***************************************************************************)
(* The state record the handlers work on.                                  *)
(***************************************************************************)
Cur(cmd) ==
    [doc |-> pdf_document, cp |-> current_page, zoom |-> zoom_level,
     inv |-> invert_colors, imgs |-> page_images, scroll |-> scroll_value,
     spin |-> page_spinbox, paths |-> handle_path, closed |-> handle_closed,
     cuse |-> closed_use, msg |-> "ok", rebuilt |-> FALSE, cmd |-> cmd,
     ptrip |-> zoom_trip, trip |-> Idle]

Assign(s) ==
    /\ pdf_document' = s.doc
    /\ current_page' = s.cp
    /\ zoom_level' = s.zoom
    /\ invert_colors' = s.inv
    /\ page_images' = s.imgs
    /\ scroll_value' = s.scroll
    /\ page_spinbox' = s.spin
    /\ handle_path' = s.paths
    /\ handle_closed' = s.closed
    /\ closed_use' = s.cuse
    /\ msg' = s.msg
    /\ rebuilt' = s.rebuilt
    /\ lastCmd' = s.cmd
    /\ zoom_trip' = s.trip

\* what `self.pdf_document` is: None, a closed handle, a handle of a file
\* without pages (falsy: bool() of a fitz.Document is len() > 0), or a
\* handle with pages
DocState(s) ==
    IF s.doc = NoDoc THEN "none"
    ELSE IF s.closed[s.doc] THEN "closed"
    ELSE IF Len(PageHeights(s.paths[s.doc])) = 0 THEN "empty"
    ELSE "open"

\* len(self.pdf_document)
PageCount(s) == Len(PageHeights(s.paths[s.doc]))

\* an exception leaves the handler; ValueError("document closed") is what a
\* closed fitz.Document raises on len(), bool() and close()
Raise(s, e) == [s EXCEPT !.msg = e, !.cuse = @ \/ (e = "ValueError")]

\* page.get_pixmap(matrix=mat, alpha=False), QImage, invertPixels, QPixmap
RenderOne(s, i) ==
    LET path == s.paths[s.doc]
        c    == PageSample(path, i)
    IN  [doc |-> s.doc, page |-> i,
         height |-> (PageHeights(path)[i + 1] * ZoomStep(s.zoom)) \div 5,
         sample |-> IF s.inv THEN 255 - c ELSE c]

\* number of pages the loop of render_all_pages appends before it stops
RenderedCount(s) ==
    LET bad == {i \in 0..(PageCount(s) - 1) : i \in BadPages(s.paths[s.doc])}
    IN  IF bad = {} THEN PageCount(s)
        ELSE CHOOSE i \in bad : \A j \in bad : i <= j

render_all_pages(s) ==
    CASE DocState(s) = "closed" -> Raise(s, "ValueError")
      [] DocState(s) \in {"none", "empty"} -> s
      [] OTHER ->
           [s EXCEPT !.imgs = [k \in 1..RenderedCount(s) |-> RenderOne(s, k - 1)],
                     !.rebuilt = TRUE,
                     !.msg = IF RenderedCount(s) < PageCount(s)
                             THEN "warning" ELSE @]

render_page(s) == render_all_pages(s)

RECURSIVE ScrollPosition(_, _)
ScrollPosition(imgs, n) ==
    IF n = 0 THEN 0
    ELSE ScrollPosition(imgs, n - 1) + imgs[n].height + Spacing

Clamp(v, lo, hi) == Max2(lo, Min2(v, hi))

scroll_to_page(s, page_num) ==
    IF page_num < 0 \/ page_num >= Len(s.imgs) THEN s
    ELSE [s EXCEPT !.scroll = ScrollPosition(s.imgs, page_num),
                   !.spin.value = Clamp(page_num + 1, s.spin.min, s.spin.max)]

jump_to_page(s, page_num) ==
    CASE DocState(s) = "closed" -> Raise(s, "ValueError")
      [] DocState(s) = "open" ->
           scroll_to_page([s EXCEPT !.cp = page_num - 1], page_num - 1)
      [] OTHER -> s

\* QSpinBox.setValue with signals enabled: the value is bounded by the range
\* and valueChanged (connected to jump_to_page) fires when it changed
SpinSetValue(s, v) ==
    LET nv == Clamp(v, s.spin.min, s.spin.max)
    IN  IF nv = s.spin.value THEN s
        ELSE jump_to_page([s EXCEPT !.spin.value = nv], nv)

\* QSpinBox.setMaximum: the minimum is lowered when it exceeds the maximum
SpinSetMaximum(s, m) ==
    LET nmin == Min2(s.spin.min, m)
        nv   == Clamp(s.spin.value, nmin, m)
        s1   == [s EXCEPT !.spin = [min |-> nmin, max |-> m, value |-> nv]]
    IN  IF nv = s.spin.value THEN s1 ELSE jump_to_page(s1, nv)

prev_page(s) ==
    CASE DocState(s) = "closed" -> Raise(s, "ValueError")
      [] DocState(s) = "open" /\ s.cp > 0 ->
           scroll_to_page([s EXCEPT !.cp = s.cp - 1], s.cp - 1)
      [] OTHER -> s

next_page(s) ==
    CASE DocState(s) = "closed" -> Raise(s, "ValueError")
      [] DocState(s) = "open" /\ s.cp < PageCount(s) - 1 ->
           scroll_to_page([s EXCEPT !.cp = s.cp + 1], s.cp + 1)
      [] OTHER -> s

\* zoom_in with a step of 0.4 instead of 0.2
zoom_in_double_step(s) ==
    render_page([s EXCEPT
        !.zoom = FMin(FAdd(FAdd(s.zoom, F_0_2), F_0_2), F_5_0),
        !.trip = TripIn(s)])

zoom_in(s) ==
    render_page([s EXCEPT !.zoom = FMin(FAdd(s.zoom, F_0_2), F_5_0),
                          !.trip = TripIn(s)])

\* zoom_out without the lower limit max(..., 0.2)
zoom_out_unclamped(s) ==
    render_page([s EXCEPT !.zoom = FSub(s.zoom, F_0_2),
                          !.trip = TripOut(s)])

zoom_out(s) ==
    render_page([s EXCEPT !.zoom = FMax(FSub(s.zoom, F_0_2), F_0_2),
                          !.trip = TripOut(s)])

toggle_color_invert(s) == render_page([s EXCEPT !.inv = ~s.inv])


\* self.pdf_document.close()
CloseDoc(s) == [s EXCEPT !.closed[s.doc] = TRUE]

\* the body of the try block of open_file once fitz.open has returned
OpenedFile(s, path) ==
    LET h  == Len(s.paths) + 1
        s1 == [s EXCEPT !.paths = Append(@, path),
                        !.closed = Append(@, FALSE),
                        !.doc = h, !.cp = 0]
        s2 == SpinSetMaximum(s1, PageCount(s1))
        s3 == SpinSetValue(s2, 1)
    IN  render_all_pages(s3)

open_file(s, path) ==
    IF path = "" THEN s
    ELSE IF DocState(s) = "closed"
         THEN [Raise(s, "ValueError") EXCEPT !.msg = "critical"]
    ELSE LET s1 == IF DocState(s) = "open" THEN CloseDoc(s) ELSE s
         IN  IF Openable(path) THEN OpenedFile(s1, path)
             ELSE [s1 EXCEPT !.msg = "critical"]

Keys == {"Right", "Down", "PageDown", "Space", "Left", "Up", "PageUp",
         "Home", "End", "Plus", "Equal", "Minus", "I", "P", "A"}

\* the operation a key is bound to
KeyOp(key) ==
    CASE key \in {"Right", "Down", "PageDown", "Space"} -> "next"
      [] key \in {"Left", "Up", "PageUp"} -> "prev"
      [] key = "Home" -> "home"
      [] key = "End" -> "end"
      [] key \in {"Plus", "Equal"} -> "zoom_in"
      [] key = "Minus" -> "zoom_out"
      [] key = "I" -> "toggle"
      [] key = "P" -> "toggle_auto_play"
      [] OTHER -> "other"

keyPressEvent(s, key) ==
    CASE DocState(s) = "closed" -> Raise(s, "ValueError")
      [] DocState(s) \in {"none", "empty"} -> s
      [] OTHER ->
           CASE KeyOp(key) = "next" -> next_page(s)
             [] KeyOp(key) = "prev" -> prev_page(s)
             [] KeyOp(key) = "home" -> render_page([s EXCEPT !.cp = 0])
             [] KeyOp(key) = "end" ->
                  render_page([s EXCEPT !.cp = PageCount(s) - 1])
             [] KeyOp(key) = "zoom_in" -> zoom_in(s)
             [] KeyOp(key) = "zoom_out" -> zoom_out(s)
             [] KeyOp(key) = "toggle" -> toggle_color_invert(s)
             [] KeyOp(key) = "toggle_auto_play" -> Raise(s, "AttributeError")
             [] OTHER -> s

wheelEvent(s, ctrl, delta) ==
    CASE DocState(s) = "closed" -> Raise(s, "ValueError")
      [] DocState(s) \in {"none", "empty"} -> s
      [] OTHER -> IF ctrl THEN (IF delta > 0 THEN zoom_in(s) ELSE zoom_out(s))
                  ELSE s

closeEvent(s) ==
    CASE DocState(s) = "closed" -> Raise(s, "ValueError")
      [] DocState(s) = "open" -> CloseDoc(s)
      [] OTHER -> s

(***************************************************************************)
(* The state after PDFViewer.__init__ and init_ui.                         *)
(***************************************************************************)
Init ==
    /\ pdf_document = NoDoc
    /\ current_page = 0
    /\ zoom_level = F_1_0
    /\ invert_colors = TRUE
    /\ page_images = <<>>
    /\ scroll_value = 0
    /\ page_spinbox = [min |-> 1, max |-> 99, value |-> 1]
    /\ handle_path = <<>>
    /\ handle_closed = <<>>
    /\ closed_use = FALSE
    /\ window_closed = FALSE
    /\ zoom_count = 0
    /\ zoom_trip = Idle
    /\ lastCmd = "init"
    /\ msg = "ok"
    /\ rebuilt = FALSE

\* free: the command is explored without the bound on zoom commands
ZoomAllowed(free) == free \/ zoom_count < MaxZooms

CountZoom(free) == zoom_count' = IF free THEN zoom_count ELSE zoom_count + 1

ZoomKeys == {key \in Keys : KeyOp(key) \in {"zoom_in", "zoom_out"}}

(***************************************************************************)
(* The input events.                                                       *)
(***************************************************************************)
OpenFile ==
    /\ ~window_closed
    /\ \E path \in Paths :
         /\ Openable(path) /\ DocState(Cur("x")) # "closed"
              => Len(handle_path) < MaxHandles
         /\ Assign(open_file(
               Cur(IF path = "" THEN "open_cancelled" ELSE "open"), path))
    /\ UNCHANGED <<window_closed, zoom_count>>

PrevButton ==
    /\ ~window_closed
    /\ Assign(prev_page(Cur("prev")))
    /\ UNCHANGED <<window_closed, zoom_count>>

NextButton ==
    /\ ~window_closed
    /\ Assign(next_page(Cur("next")))
    /\ UNCHANGED <<window_closed, zoom_count>>

\* the user edits the spinbox: a value of its range other than the shown one
SpinEdit ==
    /\ ~window_closed
    /\ \E v \in page_spinbox.min..Min2(page_spinbox.max, MaxSpinInput) :
         /\ v # page_spinbox.value
         /\ Assign(jump_to_page(
               [Cur("jump") EXCEPT !.spin.value = v], v))
    /\ UNCHANGED <<window_closed, zoom_count>>

ZoomInCmd(free) ==
    /\ ~window_closed
    /\ ZoomAllowed(free)
    /\ Assign(zoom_in(Cur("zoom_in")))
    /\ CountZoom(free)
    /\ UNCHANGED window_closed

ZoomOutCmd(free) ==
    /\ ~window_closed
    /\ ZoomAllowed(free)
    /\ Assign(zoom_out(Cur("zoom_out")))
    /\ CountZoom(free)
    /\ UNCHANGED window_closed

ToggleButton ==
    /\ ~window_closed
    /\ Assign(toggle_color_invert(Cur("toggle")))
    /\ UNCHANGED <<window_closed, zoom_count>>

KeyCmd(keys, free) ==
    /\ ~window_closed
    /\ \E key \in keys :
         /\ key \in ZoomKeys => ZoomAllowed(free)
         /\ Assign(keyPressEvent(Cur(KeyOp(key)), key))
         /\ IF key \in ZoomKeys THEN CountZoom(free)
                                ELSE UNCHANGED zoom_count
    /\ UNCHANGED window_closed

\* <<Ctrl held, angleDelta().y()>>
WheelEvents == {<<TRUE, 120>>, <<TRUE, 0>>, <<TRUE, -120>>, <<FALSE, -120>>}

WheelCmd(free) ==
    /\ ~window_closed
    /\ \E ev \in WheelEvents : LET ctrl == ev[1]  delta == ev[2] IN
         /\ ctrl => ZoomAllowed(free)
         /\ Assign(wheelEvent(
               Cur(IF ~ctrl THEN "scroll"
                   ELSE IF delta > 0 THEN "zoom_in" ELSE "zoom_out"),
               ctrl, delta))
         /\ IF ctrl THEN CountZoom(free) ELSE UNCHANGED zoom_count
    /\ UNCHANGED window_closed

CloseWindow ==
    /\ ~window_closed
    /\ Assign(closeEvent(Cur("close")))
    /\ window_closed' = TRUE
    /\ UNCHANGED zoom_count

ZoomInButton == ZoomInCmd(FALSE)

ZoomOutButton == ZoomOutCmd(FALSE)

KeyPress == KeyCmd(Keys, FALSE)

Wheel == WheelCmd(FALSE)

Next ==
    \/ OpenFile
    \/ PrevButton
    \/ NextButton
    \/ SpinEdit
    \/ ZoomInButton
    \/ ZoomOutButton
    \/ ToggleButton
    \/ KeyPress
    \/ Wheel
    \/ CloseWindow

Spec == Init /\ [][Next]_vars

(***************************************************************************)
(* The zoom commands without a bound on their number, so that both ends    *)
(* of the zoom range are reached; the other commands are those that decide *)
(* what a zoom command does (which document is loaded).                    *)
(***************************************************************************)
ZoomInAny == ZoomInCmd(TRUE)

ZoomOutAny == ZoomOutCmd(TRUE)

WheelAny == WheelCmd(TRUE)

NextZoom ==
    \/ OpenFile
    \/ ZoomInAny
    \/ ZoomOutAny
    \/ WheelAny

SpecZoom == Init /\ [][NextZoom]_vars


(***************************************************************************)
(* Vocabulary of the claims.                                               *)
(***************************************************************************)
\* a document is open: pdf_document holds a handle that was not closed
DocOpen == pdf_document # NoDoc /\ ~handle_closed[pdf_document]

\* page_count of the document pdf_document refers to
NumPages == Len(PageHeights(handle_path[pdf_document]))

NavOps == {"next", "prev", "jump", "home", "end"}

\* the handles fitz.open returned that were not closed since
LiveHandles == {h \in 1..Len(handle_path) : ~handle_closed[h]}

\* the last command was an open_file that put a new document in place
OpenSucceeded == lastCmd = "open" /\ msg # "critical"

\* scroll_offset_for(page_index): heights and spacings of the gallery pages
\* strictly before page_index
ScrollOffsetFor(imgs, p) ==
    IF p <= 0 THEN 0 ELSE ScrollPosition(imgs, Min2(p, Len(imgs)))

\* C1: whenever a document is open, 0 <= current_page < page_count.
C1_CurrentPageInRange ==
    DocOpen => 0 <= current_page /\ current_page < NumPages

\* C2: the gallery has exactly page_count entries, entry k showing page k of
\* the open document, whenever a document is open, and is empty otherwise.
C2_GalleryAligned ==
    IF DocOpen
    THEN /\ Len(page_images) = NumPages
         /\ \A k \in 1..Len(page_images) :
              page_images[k].doc = pdf_document /\ page_images[k].page = k - 1
    ELSE page_images = <<>>

\* C3: an open that fails while a document is open leaves the document handle
\* open and the handle, current_page and the gallery as they were.
C3_FailedOpenKeepsDocument ==
    [][(DocOpen /\ lastCmd' = "open" /\ msg' = "critical")
         => /\ pdf_document' = pdf_document
            /\ handle_closed' = handle_closed
            /\ current_page' = current_page
            /\ page_images' = page_images]_vars

\* C4: no navigation command (next, prev, jump, home, end) rebuilds the
\* gallery.
C4_NavigationNeverRebuilds == lastCmd \in NavOps => ~rebuilt

\* C5: a navigation command that changes current_page sets the scroll offset
\* to scroll_offset_for(current_page) of the gallery.
C5_NavigationScrolls ==
    [][(lastCmd' \in NavOps /\ current_page' # current_page)
         => scroll_value' = ScrollOffsetFor(page_images', current_page')]_vars

\* C6: no handle is closed twice and no closed handle is used (queried,
\* rendered or closed again).
C6_NoUseAfterClose == ~closed_use

\* C7: at most one document handle is live at any time, and after a
\* successful open current_page is 0 and the gallery holds only pages of the
\* new document.
C7_OpenReplacesDocument ==
    /\ Cardinality(LiveHandles) <= 1
    /\ OpenSucceeded =>
         /\ current_page = 0
         /\ \A k \in 1..Len(page_images) : page_images[k].doc = pdf_document


(***************************************************************************)
(* Comparison of zoom factors up to a tolerance.                           *)
(***************************************************************************)
\* the floating-point tolerance of a zoom round trip: 2^-40
FTol == <<0, 32768>>

\* a + b without rounding
FPlus(a, b) ==
    LET lo == a[2] + b[2]
    IN  <<a[1] + b[1] + (lo \div B30), lo % B30>>

FLeq(a, b) == ~FLess(b, a)

FWithin(a, b, tol) == FLeq(a, FPlus(b, tol)) /\ FLeq(b, FPlus(a, tol))

\* the step called zoom_out: a button always does, a key or Ctrl+wheel
\* only with a document
ZoomOutCalled == zoom_trip'.kind \in {"out1", "in2"}

\* C8 as stated: zoom_in followed by zoom_out returns the zoom factor it
\* started from, for every reachable start including 5.0, and zoom_out
\* followed by zoom_in does, including at 0.2.
C8_ZoomRoundTrip ==
    zoom_trip.kind \in {"in2", "out2"} => zoom_level = zoom_trip.start

\* C8 amended: zoom_in then zoom_out from a start z with z + 0.2 <= 5.0, and
\* zoom_out then zoom_in from a start z with z - 0.2 >= 0.2, ends within the
\* floating-point tolerance of z; from 5.0 the first pair ends at
\* 5.0 - 0.2, from 0.2 the second pair ends at 0.2 + 0.2.
C8_ZoomRoundTripUnclamped ==
    /\ zoom_trip.kind = "in2" =>
         /\ FLeq(FAdd(zoom_trip.start, F_0_2), F_5_0)
              => FWithin(zoom_level, zoom_trip.start, FTol)
         /\ zoom_trip.start = F_5_0 => zoom_level = FSub(F_5_0, F_0_2)
    /\ zoom_trip.kind = "out2" =>
         /\ FLeq(F_0_2, FSub(zoom_trip.start, F_0_2))
              => FWithin(zoom_level, zoom_trip.start, FTol)
         /\ zoom_trip.start = F_0_2 => zoom_level = FAdd(F_0_2, F_0_2)

\* a round trip that was not clamped and did not end exactly where it began
C8_Witness ==
    /\ zoom_trip.kind = "in2"
    /\ FLeq(FAdd(zoom_trip.start, F_0_2), F_5_0)
    /\ zoom_level # zoom_trip.start

\* C9: the zoom factor stays in [0.2, 5.0]; a call of zoom_out above 0.2
\* lowers it by the step or to exactly 0.2, never below, and a call at 0.2
\* changes neither the zoom factor nor the gallery.
C9_ZoomOutClamps ==
    /\ [](FLeq(F_0_2, zoom_level) /\ FLeq(zoom_level, F_5_0))
    /\ [][ZoomOutCalled =>
            IF zoom_level = F_0_2
            THEN zoom_level' = F_0_2 /\ page_images' = page_images
            ELSE /\ FLess(zoom_level', zoom_level)
                 /\ \/ zoom_level' = F_0_2
                    \/ FWithin(FPlus(zoom_level', F_0_2), zoom_level, FTol)]_vars

\* zoom_out was called at 0.2 with a rendered document and rebuilt its gallery
C9_Witness ==
    /\ lastCmd = "zoom_out"
    /\ zoom_trip = [kind |-> "out1", start |-> F_0_2]
    /\ zoom_level = F_0_2
    /\ DocOpen /\ Len(page_images) > 0 /\ rebuilt

\* C10: with a document open next() sets current_page to
\* min(current_page + 1, page_count - 1) and prev() sets it to
\* max(current_page - 1, 0).
C10_NextPrevClamp ==
    [][DocOpen =>
         /\ lastCmd' = "next"
              => current_page' = Min2(current_page + 1, NumPages - 1)
         /\ lastCmd' = "prev"
              => current_page' = Max2(current_page - 1, 0)]_vars

(***************************************************************************)
(* Vocabulary of the claims about rebuilds, inputs and the page display.   *)
(***************************************************************************)
\* the operations of the navigation controller an input can map to
ControllerOps ==
    {"next", "prev", "jump", "home", "end", "zoom_in", "zoom_out", "toggle"}

\* the step called zoom_in or zoom_out
ZoomCalled == zoom_trip'.kind # "idle"

\* the step called toggle_color_invert (it flips the flag before it renders)
ToggleCalled == lastCmd' = "toggle" /\ invert_colors' # invert_colors

\* the operations keyPressEvent dispatches to
KeyOps == {KeyOp(key) : key \in Keys}

\* C11: a rebuild in which rasterizing a page fails still yields page_count
\* gallery entries, entry k for page k, so every page stays reachable.
C11_RebuildSurvivesRenderError ==
    rebuilt =>
      /\ Len(page_images) = NumPages
      /\ \A k \in 1..Len(page_images) : page_images[k].page = k - 1

\* C12: while no document is open, an input that maps to a controller
\* operation changes none of current_page, zoom factor, invert flag, gallery.
C12_InputIgnoredWithoutDocument ==
    [][(~DocOpen /\ lastCmd' \in ControllerOps)
         => /\ current_page' = current_page
            /\ zoom_level' = zoom_level
            /\ invert_colors' = invert_colors
            /\ page_images' = page_images]_vars

\* C13: a zoom_in or zoom_out with a document (that has pages) open rebuilds
\* the gallery and sets the scroll offset to scroll_offset_for(current_page)
\* at the new page heights.
C13_ZoomRecomputesScroll ==
    [][(DocOpen /\ NumPages >= 1 /\ ZoomCalled)
         => /\ rebuilt'
            /\ scroll_value' = ScrollOffsetFor(page_images', current_page')]_vars

\* C14: a toggle flips the invert flag and replaces every sample c of every
\* gallery page by 255 - c, leaving the rest of the gallery as it was (so
\* two toggles restore it); a rebuild at unchanged document, zoom and invert
\* flag leaves the gallery as it was.
C14_ToggleComplementsGallery ==
    [][/\ ToggleCalled
            => /\ Len(page_images') = Len(page_images)
               /\ \A k \in 1..Len(page_images) :
                    page_images'[k] =
                      [page_images[k] EXCEPT !.sample = 255 - @]
       /\ (rebuilt' /\ pdf_document' = pdf_document
             /\ zoom_level' = zoom_level /\ invert_colors' = invert_colors
             /\ page_images # <<>>)
            => page_images' = page_images]_vars

\* C15: with a document open no key press ends in an unhandled exception.
C15_NoKeyRaises ==
    [][(DocOpen /\ lastCmd' \in KeyOps)
         => msg' \notin {"AttributeError", "ValueError"}]_vars

\* C16: whenever a document with at least one page is open the page spinbox
\* shows current_page + 1.
C16_SpinboxShowsCurrentPage ==
    (DocOpen /\ NumPages >= 1) => page_spinbox.value = current_page + 1

====
